---- MODULE Spec2Model ----
(***************************************************************************)
(* The authentication / session subsystem of the Goals backend             *)
(* (controller/authController.js: signup, login, refreshAccessToken,       *)
(* logout) as a state machine.                                             *)
(*                                                                         *)
(* Every handler is an async function: it runs synchronously between two   *)
(* awaits, and the awaits are storage calls (User.findOne, User.create,    *)
(* user.save) or the credential verifier (user.comparePassword).  One      *)
(* action of the model is one synchronous stretch of one handler together  *)
(* with the storage call that precedes it.  A request in flight lives in   *)
(* a slot of reqs; db is the persisted users collection.                   *)
(*                                                                         *)
(* Strings are modelled as naturals: 0 is the empty string, 1..MaxRaw are  *)
(* the values crypto.randomBytes(40) produces (each fresh), Forged is a    *)
(* string a client made up, and hashToken maps every string to a string    *)
(* outside the range of the random source (a sha256 hex digest has 64      *)
(* characters, a raw token 80) and is injective.                           *)
(***************************************************************************)
EXTENDS Integers, Sequences, FiniteSets, TLC

VARIABLES
    db,         \* the persisted users: email -> [reg, rt]
    now,        \* Date.now()
    nextRaw,    \* the random source: the next fresh raw refresh token
    jwtSecret,  \* process.env.JWT_SECRET is set
    reqs,       \* the requests in flight: slot -> request record
    resp,       \* the response the last step sent (NoResp when it sent none);
                \* its field u is the account the request was about, saved whether
                \* the request called user.save()
    accepted,   \* history: raw token -> number of refresh requests answered 200 for it
    delivered,  \* history: raw refresh tokens returned to a client in a response
    parent,     \* history: raw token -> the raw token whose refresh issued it (0: none)
    retired,    \* history: digests a persisted request removed on purpose
    consumed,   \* history: digests a completed refresh or logout removed
    stale       \* history: some save overwrote a collection changed since it was loaded

vars == <<db, now, nextRaw, jwtSecret, reqs, resp, accepted, delivered, parent,
          retired, consumed, stale>>

\* ---------------------------------------------------------------- bounds
MaxTime == 2
MaxRaw == 4
MaxRawRace == 3
MaxRawFault == 3
MaxRawOne == 4
MaxInflight == 2

\* ------------------------------------------------------- configuration
\* JWT_REFRESH_MAX_TOKENS (default 5); the model runs with a limit of 2.
MAX_REFRESH_TOKENS == 2
\* REFRESH_TOKEN_TTL_DAYS * DAY_IN_MS, in ticks of the model's clock.
REFRESH_TOKEN_TTL == 1

Users == {"a@x.com", "b@x.com"}
NoUser == "none"
Slots == 1..MaxInflight
Raws == 1..MaxRaw
Empty == 0
Forged == MaxRaw + 1

\* ------------------------------------------------------ pure functions
hashTokenIdentity(token) == token

\* crypto.createHash('sha256').update(token).digest('hex')
hashToken(token) == token + MaxRaw + 1

Entry(h, e) == [token |-> h, expiresAt |-> e]

Tokens(rt) == {rt[i].token : i \in DOMAIN rt}

pruneExpiredTokensInclusive(rt, t) == SelectSeq(rt, LAMBDA entry : entry.expiresAt >= t)

pruneExpiredTokens(rt, t) == SelectSeq(rt, LAMBDA entry : entry.expiresAt > t)

enforceTokenLimitOff(rt) == rt

enforceTokenLimit(rt) ==
    IF Len(rt) <= MAX_REFRESH_TOKENS THEN rt
    ELSE LET excess == Len(rt) - MAX_REFRESH_TOKENS
         IN  SubSeq(rt, excess + 1, Len(rt))

attachRefreshTokenRaw(rt, refreshTokenValue, t) ==
    Append(rt, Entry(refreshTokenValue, t + REFRESH_TOKEN_TTL))

attachRefreshToken(rt, refreshTokenValue, t) ==
    Append(rt, Entry(hashToken(refreshTokenValue), t + REFRESH_TOKEN_TTL))

removeRefreshTokenAll(rt, hashedToken) == <<>>

removeRefreshTokenNoop(rt, hashedToken) == rt

removeRefreshTokenInverted(rt, hashedToken) ==
    SelectSeq(rt, LAMBDA entry : entry.token = hashedToken)

removeRefreshToken(rt, hashedToken) ==
    SelectSeq(rt, LAMBDA entry : entry.token /= hashedToken)

issueTokensUnattached(rt, refreshTokenValue, t) ==
    enforceTokenLimit(pruneExpiredTokens(rt, t))

\* The synchronous part of issueTokensForUser, up to the await of user.save().
issueTokens(rt, refreshTokenValue, t) ==
    attachRefreshToken(enforceTokenLimit(pruneExpiredTokens(rt, t)), refreshTokenValue, t)

\* user.refreshTokens.find((entry) => entry.token === hashedToken)
storedToken(rt, hashedToken) ==
    LET hits == SelectSeq(rt, LAMBDA entry : entry.token = hashedToken)
    IN  IF hits = <<>> THEN [token |-> Empty, expiresAt |-> 0] ELSE Head(hits)

findByTokenUnfiltered(hashedToken) ==
    {u \in Users : db[u].reg /\ db[u].rt /= <<>>}

isExpiredStrict(stored, t) == stored.token = Empty \/ stored.expiresAt < t

\* !storedToken || storedToken.expiresAt.getTime() <= Date.now()
isExpired(stored, t) == stored.token = Empty \/ stored.expiresAt <= t

\* User.findOne({ 'refreshTokens.token': hashedToken })
findByToken(hashedToken) ==
    {u \in Users : db[u].reg /\ hashedToken \in Tokens(db[u].rt)}

\* ------------------------------------------------------------ records
Idle == [op |-> "none", pc |-> "idle", u |-> NoUser, snap |-> <<>>, rt |-> <<>>,
         tok |-> Empty, new |-> Empty, pw |-> FALSE, out |-> "none"]

NoResp == [op |-> "none", status |-> 0, message |-> "", tok |-> Empty,
           refreshToken |-> Empty, accessToken |-> FALSE, u |-> NoUser, saved |-> FALSE]

Response(op, status, message, tok, u, saved) ==
    [op |-> op, status |-> status, message |-> message, tok |-> tok,
     refreshToken |-> Empty, accessToken |-> FALSE, u |-> u, saved |-> saved]

\* respondWithTokens
respondWithTokens(op, status, message, tok, u, refreshToken) ==
    [op |-> op, status |-> status, message |-> message, tok |-> tok,
     refreshToken |-> refreshToken, accessToken |-> TRUE, u |-> u, saved |-> TRUE]

serverErrorLeaky(op, tok, u, saved) ==
    Response(op, 401, "Missing JWT_SECRET in environment variables", tok, u, saved)

\* catch (error) { ...; return res.status(500).json({ message: 'Server error' }) }
serverError(op, tok, u, saved) == Response(op, 500, "Server error", tok, u, saved)

invalidCredentialsDistinct(email) ==
    Response("login", 401, "Incorrect password", Empty, email, FALSE)

\* login, no user with the email: res.status(401).json({ message: 'Invalid credentials' })
invalidCredentialsNoUser(email) ==
    Response("login", 401, "Invalid credentials", Empty, email, FALSE)

\* login, comparePassword false: res.status(401).json({ message: 'Invalid credentials' })
invalidCredentialsMismatch(email) ==
    Response("login", 401, "Invalid credentials", Empty, email, FALSE)

AllIdle == \A s \in Slots : reqs[s] = Idle

\* A new request takes the lowest free slot (the slots are interchangeable).
Free(s) == reqs[s] = Idle /\ \A k \in Slots : k < s => reqs[k] /= Idle

\* The request in slot s is over; the requests behind it move up.
Release(s) ==
    [k \in Slots |-> IF k < s THEN reqs[k]
                     ELSE IF k < MaxInflight THEN reqs[k + 1] ELSE Idle]

\* The random source is bounded: at most n raw tokens are generated in a run.
Budget(n) ==
    nextRaw + Cardinality({s \in Slots : reqs[s].pc \in {"create", "verify"}}) <= n

History == <<accepted, delivered, parent, retired, consumed, stale>>

\* ---------------------------------------------------------------- Init
Init ==
    /\ db = [u \in Users |-> [reg |-> FALSE, rt |-> <<>>]]
    /\ now = 0
    /\ nextRaw = 1
    /\ jwtSecret = TRUE
    /\ reqs = [s \in Slots |-> Idle]
    /\ resp = NoResp
    /\ accepted = [r \in 1..Forged |-> 0]
    /\ delivered = {}
    /\ parent = [r \in 1..Forged |-> 0]
    /\ retired = {}
    /\ consumed = {}
    /\ stale = FALSE

\* ------------------------------------------------------------- actions
\* The clock advances.
Tick ==
    /\ now < MaxTime
    /\ now' = now + 1
    /\ resp' = NoResp
    /\ UNCHANGED <<db, nextRaw, jwtSecret, reqs, History>>

\* signup, up to the await of User.create: validation and User.findOne({ email }).
SignupStart(s, email, complete) ==
    /\ Free(s)
    /\ IF ~complete
       THEN /\ resp' = Response("signup", 400, "Name, email and password are required",
                                Empty, email, FALSE)
            /\ UNCHANGED reqs
       ELSE IF db[email].reg
       THEN /\ resp' = Response("signup", 409, "Email already in use", Empty, email, FALSE)
            /\ UNCHANGED reqs
       ELSE /\ resp' = NoResp
            /\ reqs' = [reqs EXCEPT ![s] = [Idle EXCEPT !.op = "signup", !.pc = "create",
                                                         !.u = email]]
    /\ UNCHANGED <<db, now, nextRaw, jwtSecret, History>>

\* signup: User.create resolves, then issueTokensForUser up to the await of save.
SignupCreate(s) ==
    /\ reqs[s].op = "signup" /\ reqs[s].pc = "create"
    /\ LET email == reqs[s].u IN
       IF db[email].reg
       THEN \* the email was registered in the meantime: create rejects, caught as 500
            /\ resp' = serverError("signup", Empty, email, FALSE)
            /\ reqs' = Release(s)
            /\ UNCHANGED <<db, nextRaw>>
       ELSE /\ db' = [db EXCEPT ![email] = [reg |-> TRUE, rt |-> <<>>]]
            /\ reqs' = [reqs EXCEPT ![s].pc = "save",
                                    ![s].new = nextRaw,
                                    ![s].rt = issueTokens(<<>>, nextRaw, now),
                                    ![s].out = "ok"]
            /\ nextRaw' = nextRaw + 1
            /\ resp' = NoResp
    /\ UNCHANGED <<now, jwtSecret, History>>

\* login, up to the await of comparePassword: validation and User.findOne({ email }).
LoginStart(s, email, complete, pw) ==
    /\ Free(s)
    /\ IF ~complete
       THEN /\ resp' = Response("login", 400, "Email and password are required",
                                Empty, email, FALSE)
            /\ UNCHANGED reqs
       ELSE IF ~db[email].reg
       THEN /\ resp' = invalidCredentialsNoUser(email)
            /\ UNCHANGED reqs
       ELSE /\ resp' = NoResp
            /\ reqs' = [reqs EXCEPT ![s] = [Idle EXCEPT !.op = "login", !.pc = "verify",
                                                         !.u = email, !.pw = pw,
                                                         !.snap = db[email].rt,
                                                         !.rt = db[email].rt]]
    /\ UNCHANGED <<db, now, nextRaw, jwtSecret, History>>

\* login: comparePassword resolves, then issueTokensForUser up to the await of save.
LoginVerify(s) ==
    /\ reqs[s].op = "login" /\ reqs[s].pc = "verify"
    /\ IF ~reqs[s].pw
       THEN /\ resp' = invalidCredentialsMismatch(reqs[s].u)
            /\ reqs' = Release(s)
            /\ UNCHANGED nextRaw
       ELSE /\ reqs' = [reqs EXCEPT ![s].pc = "save",
                                    ![s].new = nextRaw,
                                    ![s].rt = issueTokens(reqs[s].rt, nextRaw, now),
                                    ![s].out = "ok"]
            /\ nextRaw' = nextRaw + 1
            /\ resp' = NoResp
    /\ UNCHANGED <<db, now, jwtSecret, History>>

\* refreshAccessToken, up to the await of user.save().
RefreshStart(s, refreshToken) ==
    /\ Free(s)
    /\ LET hashedToken == hashToken(refreshToken)
           found == findByToken(hashedToken)
       IN
       IF refreshToken = Empty
       THEN /\ resp' = Response("refresh", 400, "Refresh token is required",
                                refreshToken, NoUser, FALSE)
            /\ UNCHANGED <<reqs, nextRaw>>
       ELSE IF found = {}
       THEN /\ resp' = Response("refresh", 401, "Invalid refresh token",
                                refreshToken, NoUser, FALSE)
            /\ UNCHANGED <<reqs, nextRaw>>
       ELSE \E u \in found :
            LET loaded == db[u].rt
                stored == storedToken(loaded, hashedToken)
            IN
            IF isExpired(stored, now)
            THEN /\ reqs' = [reqs EXCEPT ![s] =
                        [Idle EXCEPT !.op = "refresh", !.pc = "save", !.u = u,
                                     !.tok = refreshToken, !.snap = loaded,
                                     !.rt = removeRefreshToken(loaded, hashedToken),
                                     !.out = "expired"]]
                 /\ resp' = NoResp
                 /\ UNCHANGED nextRaw
            ELSE /\ reqs' = [reqs EXCEPT ![s] =
                        [Idle EXCEPT !.op = "refresh", !.pc = "save", !.u = u,
                                     !.tok = refreshToken, !.snap = loaded,
                                     !.new = nextRaw,
                                     !.rt = issueTokens(removeRefreshToken(loaded, hashedToken),
                                                        nextRaw, now),
                                     !.out = "ok"]]
                 /\ nextRaw' = nextRaw + 1
                 /\ resp' = NoResp
    /\ UNCHANGED <<db, now, jwtSecret, History>>

\* logout, up to the await of user.save() (or to the response when nothing is saved).
LogoutStart(s, refreshToken) ==
    /\ Free(s)
    /\ LET hashedToken == hashToken(refreshToken)
           found == findByToken(hashedToken)
       IN
       IF refreshToken = Empty
       THEN /\ resp' = Response("logout", 400, "Refresh token is required",
                                refreshToken, NoUser, FALSE)
            /\ UNCHANGED reqs
       ELSE IF found = {}
       THEN /\ resp' = Response("logout", 200, "Logged out successfully",
                                refreshToken, NoUser, FALSE)
            /\ UNCHANGED reqs
       ELSE \E u \in found :
            LET loaded == db[u].rt
                after == removeRefreshToken(loaded, hashedToken)
                removed == Len(loaded) /= Len(after)
            IN
            IF removed
            THEN /\ reqs' = [reqs EXCEPT ![s] =
                        [Idle EXCEPT !.op = "logout", !.pc = "save", !.u = u,
                                     !.tok = refreshToken, !.snap = loaded,
                                     !.rt = after, !.out = "ok"]]
                 /\ resp' = NoResp
            ELSE /\ resp' = Response("logout", 200, "Logged out successfully",
                                     refreshToken, NoUser, FALSE)
                 /\ UNCHANGED reqs
    /\ UNCHANGED <<db, now, nextRaw, jwtSecret, History>>

\* user.save(): the whole refreshTokens array of the in-memory document replaces
\* the persisted one.
save(u, rt) == [db EXCEPT ![u].rt = rt]

\* user.save() resolves and the handler runs to its response.
Persist(s) ==
    /\ reqs[s].pc = "save"
    /\ LET r == reqs[s]
           issuing == r.out = "ok" /\ r.op \in {"signup", "login", "refresh"}
           ok == issuing /\ jwtSecret
       IN
       /\ db' = save(r.u, r.rt)
       /\ stale' = (stale \/ db[r.u].rt /= r.snap)
       /\ retired' = retired \cup (Tokens(r.snap) \ Tokens(r.rt))
       /\ consumed' = IF r.op \in {"refresh", "logout"}
                      THEN consumed \cup {hashToken(r.tok)} ELSE consumed
       /\ delivered' = IF ok THEN delivered \cup {r.new} ELSE delivered
       /\ accepted' = IF ok /\ r.op = "refresh"
                      THEN [accepted EXCEPT ![r.tok] = @ + 1] ELSE accepted
       /\ parent' = IF ok /\ r.op = "refresh"
                    THEN [parent EXCEPT ![r.new] = r.tok] ELSE parent
       /\ resp' =
            IF r.op = "logout"
            THEN Response("logout", 200, "Logged out successfully", r.tok, r.u, TRUE)
            ELSE IF r.out = "expired"
            THEN Response("refresh", 401, "Refresh token expired", r.tok, r.u, TRUE)
            ELSE IF ~jwtSecret
            THEN serverError(r.op, r.tok, r.u, TRUE)
            ELSE IF r.op = "signup"
            THEN respondWithTokens("signup", 201, "User created successfully", r.tok, r.u, r.new)
            ELSE IF r.op = "login"
            THEN respondWithTokens("login", 200, "Login successful", r.tok, r.u, r.new)
            ELSE respondWithTokens("refresh", 200, "Token refreshed", r.tok, r.u, r.new)
       /\ reqs' = Release(s)
    /\ UNCHANGED <<now, nextRaw, jwtSecret>>

\* The strings a client can put in the refreshToken field.
Submittable == delivered \cup {Forged, Empty}

\* Requests overlap: up to MaxInflight handlers are between two awaits.
Next ==
    \/ Tick
    \/ Budget(MaxRawRace) /\ \E s \in Slots, email \in Users, complete \in BOOLEAN :
            SignupStart(s, email, complete)
    \/ \E s \in Slots : SignupCreate(s)
    \/ Budget(MaxRawRace) /\ \E s \in Slots, email \in Users, complete \in BOOLEAN,
                                 pw \in BOOLEAN : LoginStart(s, email, complete, pw)
    \/ \E s \in Slots : LoginVerify(s)
    \/ Budget(MaxRawRace) /\ \E s \in Slots, t \in Submittable : RefreshStart(s, t)
    \/ \E s \in Slots, t \in Submittable : LogoutStart(s, t)
    \/ \E s \in Slots : Persist(s)

Spec == Init /\ [][Next]_vars

\* Requests one at a time: a request starts only when none is in flight.
NextSeq ==
    \/ Tick
    \/ AllIdle /\ Budget(MaxRaw) /\ \E email \in Users, complete \in BOOLEAN :
            SignupStart(1, email, complete)
    \/ SignupCreate(1)
    \/ AllIdle /\ Budget(MaxRaw) /\ \E email \in Users, complete \in BOOLEAN,
                                      pw \in BOOLEAN : LoginStart(1, email, complete, pw)
    \/ LoginVerify(1)
    \/ AllIdle /\ Budget(MaxRaw) /\ \E t \in Submittable : RefreshStart(1, t)
    \/ AllIdle /\ \E t \in Submittable : LogoutStart(1, t)
    \/ Persist(1)

SpecSeq == Init /\ [][NextSeq]_vars

\* Overlapping requests that all concern one account: the collections of two
\* users never influence each other, so a bound on one collection is explored with
\* more tokens here.
OneUser == {"a@x.com"}

NextOne ==
    \/ Tick
    \/ Budget(MaxRawOne) /\ \E s \in Slots, email \in OneUser, complete \in BOOLEAN :
            SignupStart(s, email, complete)
    \/ \E s \in Slots : SignupCreate(s)
    \/ Budget(MaxRawOne) /\ \E s \in Slots, email \in OneUser, complete \in BOOLEAN,
                                pw \in BOOLEAN : LoginStart(s, email, complete, pw)
    \/ \E s \in Slots : LoginVerify(s)
    \/ Budget(MaxRawOne) /\ \E s \in Slots, t \in Submittable : RefreshStart(s, t)
    \/ \E s \in Slots, t \in Submittable : LogoutStart(s, t)
    \/ \E s \in Slots : Persist(s)

SpecOne == Init /\ [][NextOne]_vars

\* ------------------------------------------------- collaborator failures
\* User.findOne({ email }) rejects in signup or login: the catch block answers.
FindByEmailFail(s, op, email) ==
    /\ Free(s)
    /\ op \in {"signup", "login"}
    /\ resp' = serverError(op, Empty, email, FALSE)
    /\ UNCHANGED <<db, now, nextRaw, jwtSecret, reqs, History>>

\* User.findOne({ 'refreshTokens.token': ... }) rejects in refresh or logout.
FindByTokenFail(s, op, refreshToken) ==
    /\ Free(s)
    /\ op \in {"refresh", "logout"}
    /\ refreshToken /= Empty
    /\ resp' = serverError(op, refreshToken, NoUser, FALSE)
    /\ UNCHANGED <<db, now, nextRaw, jwtSecret, reqs, History>>

\* User.create rejects in signup.
CreateFail(s) ==
    /\ reqs[s].op = "signup" /\ reqs[s].pc = "create"
    /\ resp' = serverError("signup", Empty, reqs[s].u, FALSE)
    /\ reqs' = Release(s)
    /\ UNCHANGED <<db, now, nextRaw, jwtSecret, History>>

\* user.comparePassword rejects in login.
VerifyFail(s) ==
    /\ reqs[s].op = "login" /\ reqs[s].pc = "verify"
    /\ resp' = serverError("login", Empty, reqs[s].u, FALSE)
    /\ reqs' = Release(s)
    /\ UNCHANGED <<db, now, nextRaw, jwtSecret, History>>

\* user.save() rejects: nothing is written, the catch block answers.
SaveFail(s) ==
    /\ reqs[s].pc = "save"
    /\ resp' = serverError(reqs[s].op, reqs[s].tok, reqs[s].u, TRUE)
    /\ reqs' = Release(s)
    /\ UNCHANGED <<db, now, nextRaw, jwtSecret, History>>

\* The process is restarted with JWT_SECRET set or unset; the users collection
\* and the tokens the clients hold outlive it.
Restart ==
    /\ AllIdle
    /\ jwtSecret' = ~jwtSecret
    /\ resp' = NoResp
    /\ UNCHANGED <<db, now, nextRaw, reqs, History>>

InitFault ==
    /\ db = [u \in Users |-> [reg |-> FALSE, rt |-> <<>>]]
    /\ now = 0
    /\ nextRaw = 1
    /\ jwtSecret \in BOOLEAN
    /\ reqs = [s \in Slots |-> Idle]
    /\ resp = NoResp
    /\ accepted = [r \in 1..Forged |-> 0]
    /\ delivered = {}
    /\ parent = [r \in 1..Forged |-> 0]
    /\ retired = {}
    /\ consumed = {}
    /\ stale = FALSE

\* Requests one at a time, with collaborators that can fail.
NextFault ==
    \/ Tick
    \/ AllIdle /\ Budget(MaxRawFault) /\ \E email \in Users, complete \in BOOLEAN :
            SignupStart(1, email, complete)
    \/ SignupCreate(1)
    \/ AllIdle /\ Budget(MaxRawFault) /\ \E email \in Users, complete \in BOOLEAN,
                                        pw \in BOOLEAN : LoginStart(1, email, complete, pw)
    \/ LoginVerify(1)
    \/ AllIdle /\ Budget(MaxRawFault) /\ \E t \in Submittable : RefreshStart(1, t)
    \/ AllIdle /\ \E t \in Submittable : LogoutStart(1, t)
    \/ Persist(1)
    \/ AllIdle /\ \E op \in {"signup", "login"}, email \in Users :
            FindByEmailFail(1, op, email)
    \/ AllIdle /\ \E op \in {"refresh", "logout"}, t \in Submittable :
            FindByTokenFail(1, op, t)
    \/ CreateFail(1)
    \/ VerifyFail(1)
    \/ SaveFail(1)
    \/ Restart

SpecFault == InitFault /\ [][NextFault]_vars

\* ======================================================= the claims
\* The digests held by any persisted collection.
Stored == UNION {Tokens(db[u].rt) : u \in Users}

\* The last step answered a refresh request that carried a token a client holds.
RefreshAnswered == resp.op = "refresh" /\ resp.tok \in delivered

\* C1 as stated: with requests one at a time, a raw token that a refresh has
\* accepted is rejected (401) by every later refresh, and a token T2 that a refresh
\* issued is accepted by exactly one refresh request: a refresh that submits it is
\* rejected only if an earlier refresh accepted it (expiry set aside: the rejection
\* of a token that has expired is not held against the claim).
C1_ExactlyOnce ==
    RefreshAnswered =>
        /\ resp.status = 200 => accepted[resp.tok] = 1
        /\ (parent[resp.tok] /= 0 /\ resp.status /= 200) =>
              accepted[resp.tok] >= 1 \/ resp.message = "Refresh token expired"

\* C1, amended: with requests one at a time, no raw token is accepted by more than
\* one refresh request; a refresh that answers 200 for T1 removes T1's entry and
\* stores the entry of the token T2 it returns; and a refresh that submits a token
\* a client holds answers 401 exactly when the token's entry is gone from the store
\* (rotated by an earlier refresh, revoked by logout, evicted by the limit, pruned
\* or removed as expired), and 200 otherwise.
C1_SingleUseRotation ==
    /\ \A t \in 1..Forged : accepted[t] <= 1
    /\ RefreshAnswered =>
        /\ resp.status \in {200, 401}
        /\ hashToken(resp.tok) \notin Stored
        /\ resp.status = 200 =>
            /\ accepted[resp.tok] = 1
            /\ parent[resp.refreshToken] = resp.tok
            /\ accepted[resp.refreshToken] = 0
            /\ hashToken(resp.refreshToken) \in Tokens(db[resp.u].rt)
        /\ resp.status = 401 => hashToken(resp.tok) \in retired

\* C1 witness: a token that a refresh issued was accepted once and is now rejected.
C1_Witness ==
    /\ RefreshAnswered
    /\ resp.status = 401
    /\ parent[resp.tok] /= 0
    /\ accepted[resp.tok] = 1
    /\ accepted[parent[resp.tok]] = 1

\* C2: every user's persisted refreshTokens collection has at most
\* MAX_REFRESH_TOKENS entries in every reachable state.
C2_LengthWithinLimit ==
    \A u \in Users : Len(db[u].rt) <= MAX_REFRESH_TOKENS

\* The digests of rt are in the order their raw tokens were generated.
IssuanceOrder(rt) ==
    \A i, j \in DOMAIN rt : i < j => rt[i].token < rt[j].token

\* C3: after a successful login the user's collection has at most
\* MAX_REFRESH_TOKENS entries, in issuance order, the newest last: a login that
\* finds MAX_REFRESH_TOKENS entries evicts the oldest and leaves MAX_REFRESH_TOKENS.
C3_LoginFifoEviction ==
    (resp.op = "login" /\ resp.status = 200) =>
        LET rt == db[resp.u].rt IN
        /\ Len(rt) <= MAX_REFRESH_TOKENS
        /\ IssuanceOrder(rt)
        /\ rt /= <<>> /\ rt[Len(rt)].token = hashToken(resp.refreshToken)

\* The step just taken sent a response.
Answered(op) == resp' /= NoResp /\ resp'.op = op

\* The step just taken is the first step of a request (requests one at a time).
Started(op) == reqs[1] = Idle /\ reqs'[1].op = op

\* The step just taken is the save of a request and its response.
Saved(op) == reqs[1].op = op /\ reqs[1].pc = "save" /\ reqs'[1] = Idle

\* The collection rt without the entries of digest h (written without the model's
\* removeRefreshToken, which the claims below are about).
Without(rt, h) == SelectSeq(rt, LAMBDA entry : ~(entry.token = h))

\* The entry of raw token t is in some persisted collection and has expired.
ExpiredEntry(t) ==
    \E u \in Users : \E i \in DOMAIN db[u].rt :
        db[u].rt[i].token = hashToken(t) /\ db[u].rt[i].expiresAt <= now

\* C4: with requests one at a time, a refresh request whose token's digest matches
\* a stored entry with expiresAt <= now generates no token and answers 401
\* "Refresh token expired" without tokens, and its save removes that entry and
\* leaves every other entry of every collection as it was.
C4_ExpiredRefresh ==
    [][ /\ (Started("refresh") /\ ExpiredEntry(reqs'[1].tok)) =>
              /\ reqs'[1].out = "expired"
              /\ nextRaw' = nextRaw
        /\ (Saved("refresh") /\ reqs[1].out = "expired") =>
              /\ resp'.status = 401
              /\ resp'.message = "Refresh token expired"
              /\ resp'.refreshToken = Empty /\ ~resp'.accessToken
              /\ delivered' = delivered /\ accepted' = accepted
              /\ \A u \in Users :
                    db'[u] = [db[u] EXCEPT !.rt = Without(@, hashToken(reqs[1].tok))]
        /\ (Answered("refresh") /\ resp'.message = "Refresh token expired") =>
              Saved("refresh") /\ reqs[1].out = "expired" /\ resp'.tok = reqs[1].tok
      ]_vars

\* C4 witness: an expired token was refused and removed, and another entry of the
\* same user, itself expired, is still stored.
C4_Witness ==
    /\ resp.op = "refresh" /\ resp.message = "Refresh token expired"
    /\ hashToken(resp.tok) \notin Stored
    /\ \E i \in DOMAIN db[resp.u].rt : db[resp.u].rt[i].expiresAt <= now

\* C5: with requests one at a time, a refresh request whose token's digest matches
\* no stored entry answers 401 "Invalid refresh token" (never the expired outcome),
\* calls no save and changes no collection; and only such a request gets that answer.
C5_UnknownRefresh ==
    [][ (Answered("refresh") /\ resp'.tok /= Empty) =>
            /\ (hashToken(resp'.tok) \notin Stored) <=>
                    (resp'.message = "Invalid refresh token")
            /\ resp'.message = "Invalid refresh token" =>
                    /\ resp'.status = 401
                    /\ ~resp'.saved
                    /\ resp'.refreshToken = Empty /\ ~resp'.accessToken
                    /\ UNCHANGED <<db, reqs, nextRaw, delivered>>
      ]_vars

\* C5 witness: a made-up token was refused while collections hold entries.
C5_Witness ==
    /\ resp.op = "refresh" /\ resp.tok = Forged
    /\ resp.message = "Invalid refresh token"
    /\ Stored /= {}

\* C6: with requests one at a time, a logout request with a non-empty refreshToken
\* answers 200 "Logged out successfully" whether or not the digest matches; when
\* it matches, the save removes the entry and nothing else; when it does not (as
\* for a second logout with the same token), no save is called and no collection
\* changes; after either, no entry has that digest.
C6_IdempotentLogout ==
    [][ (Answered("logout") /\ resp'.tok /= Empty) =>
            LET h == hashToken(resp'.tok) IN
            /\ resp'.status = 200
            /\ resp'.message = "Logged out successfully"
            /\ resp'.refreshToken = Empty /\ ~resp'.accessToken
            /\ h \notin Stored'
            /\ IF h \in Stored
               THEN /\ resp'.saved
                    /\ \A u \in Users : db'[u] = [db[u] EXCEPT !.rt = Without(@, h)]
               ELSE /\ ~resp'.saved
                    /\ db' = db
      ]_vars

\* C6 witness: a second logout with a token that an earlier logout removed (at
\* time 0 nothing has expired, and the token was never redeemed).
C6_Witness ==
    /\ resp.op = "logout" /\ resp.status = 200 /\ ~resp.saved
    /\ resp.tok \in delivered
    /\ hashToken(resp.tok) \in consumed
    /\ accepted[resp.tok] = 0
    /\ now = 0

\* C7: with requests one at a time, a signup request ends in 400, 409 or 201; a
\* signup that reaches User.create ends in 201 with an access token and a refresh
\* token, and the new user's persisted collection is then exactly one entry, the
\* digest of the returned refresh token; a 409 is given only for a registered
\* email, and creates no user and no entry.
C7_Signup ==
    [][ /\ Answered("signup") =>
              /\ resp'.status \in {400, 409, 201}
              /\ resp'.status = 201 =>
                    /\ resp'.accessToken
                    /\ resp'.refreshToken \in Raws
                    /\ db'[resp'.u].reg
                    /\ Len(db'[resp'.u].rt) = 1
                    /\ db'[resp'.u].rt[1].token = hashToken(resp'.refreshToken)
                    /\ \A v \in Users \ {resp'.u} : db'[v] = db[v]
              /\ resp'.status = 409 =>
                    /\ db[resp'.u].reg
                    /\ UNCHANGED <<db, nextRaw, delivered>>
        /\ Started("signup") => ~db[reqs'[1].u].reg
        /\ Saved("signup") => resp'.status = 201
      ]_vars

\* C7 witness: a second user signed up (201) while the first holds entries.
C7_Witness ==
    /\ resp.op = "signup" /\ resp.status = 201
    /\ \E v \in Users \ {resp.u} : db[v].rt /= <<>>

C9_AtMostOneAccept ==
    \A t \in 1..Forged : accepted[t] <= 1

\* C10 (a): the entry of a raw token that a response returned is in no persisted
\* collection although no persisted request removed it on purpose (by rotation,
\* logout, expiry or the limit).
SilentlyDropped ==
    \E raw \in delivered :
        hashToken(raw) \notin Stored /\ hashToken(raw) \notin retired

\* C10 (b): an entry that a completed refresh or logout removed is stored again.
Resurrected == \E h \in consumed : h \in Stored

\* C10: a returned token's entry is silently dropped, or a removed entry is stored
\* again, only after a save overwrote a collection that another request had
\* changed since the saving request loaded it (last write wins); the witness shows
\* that overlapping requests do reach both outcomes.
C10_LostUpdateOnlyByOverwrite ==
    (SilentlyDropped \/ Resurrected) => stale

\* C10 witness: both outcomes at once, for one user, with no request in flight.
C10_Witness ==
    /\ SilentlyDropped
    /\ Resurrected
    /\ AllIdle
    /\ \E u \in Users : \A v \in Users \ {u} : ~db[v].reg

\* What the client sees of a response.
Body(r) == <<r.status, r.message, r.refreshToken, r.accessToken>>

\* C11: with requests one at a time, a login for an unregistered email and a login
\* for a registered email with a wrong password get the same response (401
\* "Invalid credentials", no token), generate no token, call no save and leave
\* every collection unchanged; and a login is answered 401 only in these two cases.
C11_FailedLogin ==
    [][ /\ (Answered("login") /\ reqs[1] = Idle /\ resp'.status /= 400
                /\ ~db[resp'.u].reg) =>
              Body(resp') = <<401, "Invalid credentials", Empty, FALSE>>
        /\ (reqs[1].op = "login" /\ reqs[1].pc = "verify" /\ ~reqs[1].pw
                /\ reqs'[1] /= reqs[1]) =>
              /\ Answered("login")
              /\ Body(resp') = <<401, "Invalid credentials", Empty, FALSE>>
        /\ (Answered("login") /\ resp'.status = 401) =>
              /\ ~resp'.saved
              /\ UNCHANGED <<db, nextRaw, delivered>>
              /\ reqs'[1] = Idle
              /\ \/ reqs[1] = Idle /\ ~db[resp'.u].reg
                 \/ reqs[1].op = "login" /\ reqs[1].pc = "verify" /\ ~reqs[1].pw
      ]_vars

\* C11 witness: a login with a wrong password for a user who holds entries was
\* answered 401.
C11_Witness ==
    /\ resp.op = "login" /\ resp.status = 401
    /\ db[resp.u].reg
    /\ db[resp.u].rt /= <<>>

\* The step just taken is one in which a collaborator failed: a storage load, a
\* storage write, the credential verifier, or the signing of the access token.
CollaboratorFailed ==
    \/ \E op \in {"signup", "login"}, email \in Users : FindByEmailFail(1, op, email)
    \/ \E op \in {"refresh", "logout"}, t \in Submittable : FindByTokenFail(1, op, t)
    \/ CreateFail(1)
    \/ VerifyFail(1)
    \/ SaveFail(1)
    \/ /\ Persist(1)
       /\ ~jwtSecret
       /\ reqs[1].out = "ok"
       /\ reqs[1].op \in {"signup", "login", "refresh"}

\* C12: whenever a storage load, a storage write, the credential verifier or the
\* token issuer fails during signup, login, refresh or logout, the request ends
\* with 500 "Server error" and no token (never 2xx or 401); the handler has
\* returned (the request is no longer in flight), nothing is retried and no token
\* is delivered; and 500 is answered in no other case.
C12_OpaqueFailure ==
    [][ /\ CollaboratorFailed =>
              /\ resp' /= NoResp
              /\ Body(resp') = <<500, "Server error", Empty, FALSE>>
              /\ reqs'[1] = Idle
              /\ UNCHANGED <<nextRaw, delivered, accepted>>
        /\ (resp' /= NoResp /\ resp'.status = 500) => CollaboratorFailed
      ]_vars

\* C12 witness: the save of a refresh that had found its token failed.
C12_Witness ==
    /\ resp.op = "refresh" /\ resp.status = 500
    /\ jwtSecret
    /\ hashToken(resp.tok) \in Stored

\* pruneExpired of the specification: every entry at or before t is removed.
NotExpired(C, t) == SelectSeq(C, LAMBDA entry : ~(entry.expiresAt <= t))

\* enforceLimit of the specification: the oldest entries go first, the newest
\* MAX_REFRESH_TOKENS stay.
KeepNewest(C) ==
    LET n == IF Len(C) <= MAX_REFRESH_TOKENS THEN Len(C) ELSE MAX_REFRESH_TOKENS
    IN  [i \in 1..n |-> C[Len(C) - n + i]]

\* a is b with some entries left out, the others in the same order.
RECURSIVE IsSubsequence(_, _)
IsSubsequence(a, b) ==
    IF a = <<>> THEN TRUE
    ELSE IF b = <<>> THEN FALSE
    ELSE IF Head(a) = Head(b) THEN IsSubsequence(Tail(a), Tail(b))
    ELSE IsSubsequence(a, Tail(b))

\* The step just taken ran issueTokensForUser up to its save, for the request of slot 1.
Issuing ==
    /\ reqs[1].pc /= "save"
    /\ reqs'[1].pc = "save" /\ reqs'[1].out = "ok"
    /\ reqs'[1].op \in {"signup", "login", "refresh"}

\* The collection the request of slot 1 works on: the loaded one, minus the
\* redeemed entry for refresh.
LoadedCollection ==
    LET r == reqs'[1] IN
    IF r.op = "signup" THEN <<>>
    ELSE IF r.op = "login" THEN db[r.u].rt
    ELSE Without(db[r.u].rt, hashToken(r.tok))

\* C13: with requests one at a time, a signup, login or refresh that issues at
\* time now computes enforceLimit(pruneExpired(C, now)) followed by one new entry
\* for the generated token with expiresAt = now + ttl; that collection has no
\* entry with expiresAt <= now, the retained entries are entries of C in C's
\* order; and the successful answer follows the save of exactly that collection
\* and carries the raw token of its last entry.
C13_IssuancePostcondition ==
    [][ /\ Issuing =>
              LET rt == reqs'[1].rt
                  C  == LoadedCollection
              IN  /\ rt = Append(KeepNewest(NotExpired(C, now)),
                                 [token |-> hashToken(reqs'[1].new),
                                  expiresAt |-> now + REFRESH_TOKEN_TTL])
                  /\ \A i \in DOMAIN rt : rt[i].expiresAt > now
                  /\ IsSubsequence(SubSeq(rt, 1, Len(rt) - 1), C)
                  /\ reqs'[1].new = nextRaw /\ reqs'[1].new \notin delivered
        /\ (resp' /= NoResp /\ resp'.status \in {200, 201}
                /\ resp'.op \in {"signup", "login", "refresh"}) =>
              /\ reqs[1].pc = "save" /\ reqs[1].out = "ok"
              /\ db'[resp'.u].rt = reqs[1].rt
              /\ db'[resp'.u].rt[Len(reqs[1].rt)].token = hashToken(resp'.refreshToken)
              /\ \A u \in Users \ {resp'.u} : db'[u] = db[u]
      ]_vars

\* C13 witness: a login is at its save having pruned the expired entries of a
\* loaded collection of two.
C13_Witness ==
    /\ reqs[1].op = "login" /\ reqs[1].pc = "save" /\ reqs[1].out = "ok"
    /\ Len(reqs[1].snap) = 2
    /\ Len(reqs[1].rt) = 1

\* The entry of raw token t is in some persisted collection and has not expired.
LiveEntry(t) ==
    \E u \in Users : \E i \in DOMAIN db[u].rt :
        db[u].rt[i].token = hashToken(t) /\ db[u].rt[i].expiresAt > now

\* C14: with requests one at a time, after a logout with raw token T has answered
\* 200 no persisted collection holds digest(T); the digest of a delivered token,
\* once absent, stays absent, and a refresh that submits a token whose digest is
\* absent is answered 401, so every later refresh with T is answered 401; the
\* logout removes only T's entry, and a refresh with a token whose entry is stored
\* and unexpired is answered 200.
C14_LogoutRevokes ==
    [][ /\ (Answered("logout") /\ resp'.status = 200) =>
              hashToken(resp'.tok) \notin UNION {Tokens(db'[u].rt) : u \in Users}
        /\ \A t \in delivered :
              hashToken(t) \notin Stored =>
                  /\ hashToken(t) \notin UNION {Tokens(db'[u].rt) : u \in Users}
                  /\ ~(Started("refresh") /\ reqs'[1].tok = t)
                  /\ (Answered("refresh") /\ resp'.tok = t) =>
                        Body(resp') = <<401, "Invalid refresh token", Empty, FALSE>>
        /\ Saved("logout") =>
              /\ db'[reqs[1].u].rt = Without(db[reqs[1].u].rt, hashToken(reqs[1].tok))
              /\ \A u \in Users \ {reqs[1].u} : db'[u] = db[u]
        /\ \A t \in delivered :
              LiveEntry(t) =>
                  /\ (Answered("refresh") /\ resp'.tok = t) => resp'.status = 200
                  /\ (Started("refresh") /\ reqs'[1].tok = t) => reqs'[1].out = "ok"
        /\ (Saved("refresh") /\ reqs[1].out = "ok") =>
              /\ resp'.status = 200
              /\ resp'.refreshToken = reqs[1].new
      ]_vars

\* C14 witness: a refresh with a token that a logout had revoked (nothing has
\* expired, no refresh accepted it) was answered 401 while its user still holds
\* another entry.
C14_Witness ==
    /\ resp.op = "refresh" /\ resp.status = 401
    /\ resp.tok \in delivered
    /\ accepted[resp.tok] = 0
    /\ hashToken(resp.tok) \in consumed
    /\ now = 0
    /\ \E u \in Users : /\ db[u].rt /= <<>>
                        /\ \A v \in Users \ {u} : ~db[v].reg

\* C15: under any interleaving of overlapping signup, login, refresh and logout
\* requests, every user's persisted refreshTokens collection has at most
\* MAX_REFRESH_TOKENS + 1 entries in every reachable state.
C15_LengthWithinLimitPlusOne ==
    \A u \in Users : Len(db[u].rt) <= MAX_REFRESH_TOKENS + 1

\* C15 witness: more tokens than MAX_REFRESH_TOKENS + 1 were issued to a user,
\* nothing expired, no token was redeemed or revoked and no save overwrote
\* another, and the collection holds MAX_REFRESH_TOKENS + 1 entries: the limit
\* has cut it.
C15_Witness ==
    /\ \E u \in Users : Len(db[u].rt) = MAX_REFRESH_TOKENS + 1
    /\ nextRaw > MAX_REFRESH_TOKENS + 2
    /\ \A s \in Slots : reqs[s] = Idle
    /\ now = 0
    /\ consumed = {}
    /\ ~stale

\* C16: with requests one at a time, when signing the access token fails because
\* the secret is unset during signup, login or refresh, the request is answered
\* 500 and the user's persisted collection is the one loaded by the request: no
\* entry of a token that was never delivered is stored and, for refresh, the
\* entry of the submitted token is still there.
C16_IssuanceAtomic ==
    [][ (/\ reqs[1].pc = "save" /\ reqs[1].out = "ok"
         /\ reqs[1].op \in {"signup", "login", "refresh"}
         /\ ~jwtSecret
         /\ resp' /= NoResp /\ resp'.saved) =>
            /\ resp'.status = 500
            /\ db'[reqs[1].u].rt = reqs[1].snap
            /\ hashToken(reqs[1].new) \notin UNION {Tokens(db'[u].rt) : u \in Users}
            /\ reqs[1].op = "refresh" =>
                  hashToken(reqs[1].tok) \in Tokens(db'[reqs[1].u].rt)
      ]_vars

====
